---- MODULE Spec2Model ----
(***************************************************************************)
(* Model of the batch insertion pipeline of src/rag.py                     *)
(* (HadithPGVectorInserter): main and __init__, process_csv_file,          *)
(* insert_chunks_batch, _insert_batch_with_retry, _save_progress,          *)
(* _load_progress, insert_chunks_individual and create_document_from_row.  *)
(*                                                                         *)
(* Documents are the integers 1..N in input order.  The vector store is    *)
(* the environment: each add_documents call either returns or raises.      *)
(* The progress file insertion_progress.json is the variable ckpt; its     *)
(* timestamp field plays no part in any decision and is left out.          *)
(* A process can be terminated at any point of a run and started again.    *)
(***************************************************************************)
EXTENDS Integers, Sequences, FiniteSets, TLC

\* ---------------------------------------------------------------- bounds
MaxDocs == 20
MaxBatchSize == 2
MaxRetryLimit == 3
MaxRuns == 2
MaxFailingBatches == 1

\* ------------------------------------------------------ program constants
CheckpointEvery == 10
BaseDelay == 2

VARIABLES
    env,                  \* POSTGRES_URL and GOOGLE_API_KEY as main reads them
    embeddings,           \* self.embeddings has been constructed
    vector_store,         \* self.vector_store has been constructed
    csv_read,             \* read_csv_file has been called
    use_batch_insert,     \* process_csv_file's use_batch_insert flag of the current run
    successful_inserts,   \* insert_chunks_individual's counters
    failed_inserts,
    documents,            \* the Document list built from the CSV rows
    batch_size,           \* process_csv_file's batch_size
    max_retries,          \* self.max_retries
    pc,                   \* "start" | "aborted" | "idle" | "loop" | "retry" | "each" | "done" | "crashed"
    resume,               \* process_csv_file's resume flag of the current run
    load,                 \* what _load_progress found: "notread" | "missing" | "unreadable" | "parsed"
    progress,             \* process_csv_file's progress (the dict _load_progress returned)
    resume_from,          \* insert_chunks_batch's resume_from
    i,                    \* the for-loop variable: offset of the batch's first document
    attempt,              \* _insert_batch_with_retry's loop variable
    successful_batches,
    failed_batches,
    ckpt,                 \* contents of insertion_progress.json
    visited,              \* batches handed to _insert_batch_with_retry in this run
    stored,               \* argument of the latest add_documents call of this run
    outcomes,             \* outcome of each add_documents call made for the latest batch
    waits,                \* backoff sleeps made for the latest batch
    result,               \* outcome of the latest finished batch
    pauses,               \* inter-batch sleeps of this run
    written,              \* kind of the latest change of the progress file in this run
    finished,             \* 0-indexed batches finished in this run or an earlier one
    runs,                 \* number of runs started
    failing,              \* batches on which add_documents raised, over all runs
    row,                  \* the CSV row given to create_document_from_row
    document              \* what create_document_from_row returned for it

vars == <<env, embeddings, vector_store, csv_read, use_batch_insert, successful_inserts,
          failed_inserts, documents, batch_size, max_retries, pc, resume, load, progress, resume_from, i,
          attempt, successful_batches, failed_batches, ckpt, visited, stored, outcomes, waits,
          result, pauses, written, finished, runs, failing, row, document>>

\* the variables of the row mapper; the pipeline works on the documents
\* already built and leaves them alone
mapperVars == <<row, document>>

\* ------------------------------------------------------------ pure helpers
Min(a, b) == IF a < b THEN a ELSE b

Docs(n) == [j \in 1..n |-> j]

\* a slice that drops the last document of each batch
Batch_short(docs, off, bs) == SubSeq(docs, off + 1, Min(off + bs - 1, Len(docs)))

\* documents[i:i + batch_size]  (0-indexed, end clamped to the list)
Batch(docs, off, bs) == SubSeq(docs, off + 1, Min(off + bs, Len(docs)))

\* batch_num = i // batch_size + 1
BatchNum(off, bs) == off \div bs + 1

\* a backoff that multiplies where the code raises to a power
WaitTime_linear(att) == (2 * att) * BaseDelay

\* wait_time = (2 ** attempt) * 2
WaitTime(att) == (2 ^ att) * BaseDelay

\* the progress file
NoFile == [kind |-> "none", current_batch |-> 0, successful_batches |-> 0, failed_batches |-> 0]
Truncated == [kind |-> "corrupt", current_batch |-> 0, successful_batches |-> 0, failed_batches |-> 0]

IOOutcomes == {"ok", "openfail", "dumpfail"}

\* a save that records the batch about to start instead of the one just finished
SaveProgress_ahead(file, current_batch, successful, failed, io) ==
    IF io = "ok"
    THEN [kind |-> "ok", current_batch |-> current_batch + 1,
          successful_batches |-> successful, failed_batches |-> failed]
    ELSE IF io = "openfail" THEN file ELSE Truncated

\* a save that empties the file before it knows it can be opened
SaveProgress_clobber(file, current_batch, successful, failed, io) ==
    IF io = "ok"
    THEN [kind |-> "ok", current_batch |-> current_batch,
          successful_batches |-> successful, failed_batches |-> failed]
    ELSE Truncated

\* _save_progress: open(..., "w") then json.dump; an exception is logged and swallowed.
\* open failing leaves the file as it was, a failing write leaves it truncated.
SaveProgress(file, current_batch, successful, failed, io) ==
    IF io = "ok"
    THEN [kind |-> "ok", current_batch |-> current_batch,
          successful_batches |-> successful, failed_batches |-> failed]
    ELSE IF io = "openfail" THEN file ELSE Truncated

\* a load whose fallback record names batch 1 instead of batch 0
LoadProgress_one(file, readOk) ==
    IF file.kind = "ok" /\ readOk
    THEN [current_batch |-> file.current_batch,
          successful_batches |-> file.successful_batches,
          failed_batches |-> file.failed_batches]
    ELSE [current_batch |-> 1, successful_batches |-> 0, failed_batches |-> 0]

\* _load_progress: the parsed file, or the zero record when the file is
\* missing or reading/parsing raises.
LoadProgress(file, readOk) ==
    IF file.kind = "ok" /\ readOk
    THEN [current_batch |-> file.current_batch,
          successful_batches |-> file.successful_batches,
          failed_batches |-> file.failed_batches]
    ELSE [current_batch |-> 0, successful_batches |-> 0, failed_batches |-> 0]

\* which branch _load_progress took
LoadKind(file, readOk) ==
    IF file.kind = "none" THEN "missing"
    ELSE IF file.kind = "ok" /\ readOk THEN "parsed" ELSE "unreadable"

\* a resume that starts one batch after the one the checkpoint names
ResumeFrom_skip(res, prog) == IF res THEN prog.current_batch + 1 ELSE 0

\* lines 275-279: resume_from
ResumeFrom(res, prog) == IF res THEN prog.current_batch ELSE 0

\* a loop that starts at the batch index instead of the document offset
LoopStart_unscaled(rf, bs) == rf

\* range(resume_from * batch_size, total_docs, batch_size): first value
LoopStart(rf, bs) == rf * bs

\* a loop that never advances
NextOffset_stay(off, bs) == off

\* range(resume_from * batch_size, total_docs, batch_size): next value
NextOffset(off, bs) == off + bs

\* a retry loop that runs one time too many
MayAttempt_extra(att, mr) == att <= mr

\* for attempt in range(self.max_retries)
MayAttempt(att, mr) == att < mr

\* if attempt < self.max_retries - 1: sleep and retry, else give up
RetryFollows(att, mr) == att < mr - 1

\* a clean-up that leaves the file in place
CleanUp_keep(file, rmOk) == file

\* lines 287-293: remove the progress file if it exists; a failing remove is
\* logged and the file stays.
CleanUp(file, rmOk) == IF file.kind # "none" /\ rmOk THEN NoFile ELSE file

NoCall == [num |-> 0, docs |-> <<>>]

\* a range that also yields its stop value
InRange_closed(off, total) == off <= total

\* range(start, total_docs, batch_size) still yields off
InRange(off, total) == off < total

\* an environment variable: unset (os.getenv gives None), set to "", or set
Unset == "<unset>"
EnvValues == {Unset, "", "set"}

\* Python truthiness of a string or None: "not x" is true of None and of ""
Truthy(v) == v \notin {Unset, ""}

\* postgres_url or os.getenv('POSTGRES_URL')
OrEnv(arg, envv) == IF Truthy(arg) THEN arg ELSE envv

\* max_retries or int(os.getenv('MAX_RETRIES', '3')): 0 is falsy
ConfiguredRetries(arg, envv) == IF arg # 0 THEN arg ELSE envv

\* main, lines 313-320: required_vars = ["google_api_key"]
MainValid(key) == Truthy(key)

\* a constructor that only insists on the credential
InitValid_keyonly(url, key) == Truthy(key)

\* __init__, lines 43-46
InitValid(url, key) == Truthy(url) /\ Truthy(key)

\* a CSV cell as pandas hands it over: the column is absent from the file,
\* the cell is empty (read_csv yields NaN), or it holds a value
Cell(state, val) == [state |-> state, val |-> val]
TextCells == {Cell("absent", ""), Cell("nan", ""), Cell("value", "a")}
NumCells == {Cell("absent", 0), Cell("nan", 0), Cell("value", 0), Cell("value", 7)}

Rows == [text_ar : TextCells, text_en : TextCells, source : TextCells,
         hadith_no : NumCells, chapter_no : NumCells, chapter : TextCells,
         chain_indx : TextCells]

NoRow == [text_ar |-> Cell("absent", ""), text_en |-> Cell("absent", ""),
          source |-> Cell("absent", ""), hadith_no |-> Cell("absent", 0),
          chapter_no |-> Cell("absent", 0), chapter |-> Cell("absent", ""),
          chain_indx |-> Cell("absent", "")]

\* row.get(col, default): the default is returned only when the column is
\* absent; a NaN cell is returned as it is
RowGet(cell, default) == IF cell.state = "absent" THEN default ELSE cell

\* row.get(col): None when the column is absent
None == Cell("none", 0)

\* pd.notna(x): false of NaN and of None
NotNa(cell) == cell.state \notin {"nan", "none"}

\* lines 127-128: row.get(col, 0) if pd.notna(row.get(col)) else 0
NumField(cell) ==
    IF NotNa(RowGet(cell, None)) THEN RowGet(cell, Cell("value", 0)) ELSE Cell("value", 0)

\* how an f-string renders a text value: a float NaN is printed as "nan"
Format(cell) == IF cell.state = "nan" THEN "nan" ELSE cell.val

\* create_document_from_row, lines 120-134; page_content is kept as the two
\* texts the fixed template is filled with
CreateDocumentFromRow(r) ==
    [page_content |-> <<Format(RowGet(r.text_ar, Cell("value", ""))),
                        Format(RowGet(r.text_en, Cell("value", "")))>>,
     metadata |-> [source |-> RowGet(r.source, Cell("value", "Unknown")),
                   hadith_number |-> NumField(r.hadith_no),
                   chapter_number |-> NumField(r.chapter_no),
                   chapter |-> RowGet(r.chapter, Cell("value", "")),
                   chain_index |-> RowGet(r.chain_indx, Cell("value", ""))]]

\* ------------------------------------------------------------------- Init
\* the pipeline before main has run
PipelineInit ==
    /\ env \in [POSTGRES_URL : EnvValues, GOOGLE_API_KEY : EnvValues]
    /\ embeddings = FALSE
    /\ vector_store = FALSE
    /\ csv_read = FALSE
    /\ use_batch_insert = TRUE
    /\ successful_inserts = 0
    /\ failed_inserts = 0
    /\ \E n \in 0..MaxDocs : documents = Docs(n)
    /\ batch_size \in 1..MaxBatchSize
    /\ \E mr \in 0..MaxRetryLimit : max_retries = ConfiguredRetries(mr, mr)
    /\ pc = "start"
    /\ resume = FALSE
    /\ load = "notread"
    /\ progress = LoadProgress(NoFile, TRUE)
    /\ resume_from = 0
    /\ i = 0
    /\ attempt = 0
    /\ successful_batches = 0
    /\ failed_batches = 0
    /\ ckpt = NoFile
    /\ visited = <<>>
    /\ stored = NoCall
    /\ outcomes = <<>>
    /\ waits = <<>>
    /\ result = "none"
    /\ pauses = 0
    /\ written = "none"
    /\ finished = {}
    /\ runs = 0
    /\ failing = 0

\* the pipeline is followed from the documents on: the row mapper is idle
Init ==
    /\ PipelineInit
    /\ row = NoRow
    /\ document = <<>>

\* ---------------------------------------------------------------- actions

\* main up to the end of __init__: lines 302-338 and 37-67
Setup(connOk) ==
    /\ UNCHANGED mapperVars
    /\ pc = "start"
    /\ LET url == OrEnv(env.POSTGRES_URL, env.POSTGRES_URL)
           key == OrEnv(env.GOOGLE_API_KEY, env.GOOGLE_API_KEY)
           valid == MainValid(env.GOOGLE_API_KEY) /\ InitValid(url, key)
       IN  /\ ~valid => connOk                   \* the store is only contacted once validation passed
           /\ embeddings' = valid
           /\ vector_store' = (valid /\ connOk)
           /\ pc' = IF valid /\ connOk THEN "idle" ELSE "aborted"
    /\ UNCHANGED <<env, csv_read, use_batch_insert, successful_inserts, failed_inserts,
                   documents, batch_size, max_retries, resume, load, progress,
                   resume_from, i, attempt, successful_batches, failed_batches, ckpt,
                   visited, stored, outcomes, waits, result, pauses, written, finished,
                   runs, failing>>

\* process_csv_file up to the first iteration of the insertion loop
ProcessCsvFile(batch, res, readOk) ==
    /\ UNCHANGED mapperVars
    /\ pc \in {"idle", "done", "crashed"}
    /\ (~res \/ ~batch \/ ckpt.kind # "ok") => readOk   \* a read can only fail where one happens
    /\ runs < MaxRuns
    /\ runs' = runs + 1
    /\ csv_read' = TRUE
    /\ use_batch_insert' = batch
    /\ resume' = res
    /\ load' = IF res /\ batch THEN LoadKind(ckpt, readOk) ELSE "notread"
    /\ progress' = IF res /\ batch THEN LoadProgress(ckpt, readOk)
                   ELSE LoadProgress(NoFile, TRUE)
    /\ resume_from' = ResumeFrom(res /\ batch, progress')
    /\ i' = IF batch THEN LoopStart(resume_from', batch_size) ELSE 0
    /\ attempt' = 0
    /\ successful_batches' = 0
    /\ failed_batches' = 0
    /\ successful_inserts' = 0
    /\ failed_inserts' = 0
    /\ visited' = <<>>
    /\ stored' = NoCall
    /\ outcomes' = <<>>
    /\ waits' = <<>>
    /\ result' = "none"
    /\ pauses' = 0
    /\ written' = "none"
    /\ pc' = IF batch THEN "loop" ELSE "each"
    /\ UNCHANGED <<env, embeddings, vector_store, documents, batch_size, max_retries,
                   ckpt, finished, failing>>

\* the batch handed to _insert_batch_with_retry at offset off (lines 156-160)
Handed(off) == [num |-> BatchNum(off, batch_size), docs |-> Batch(documents, off, batch_size)]

\* one more add_documents call: a new batch on the first attempt, the same one on a retry
Call(ok) ==
    /\ visited' = IF pc = "loop" THEN Append(visited, Handed(i)) ELSE visited
    /\ outcomes' = IF pc = "loop" THEN <<ok>> ELSE Append(outcomes, ok)
    /\ stored' = Handed(i)

\* a loop body that stops the run at the first failed batch
BatchDone_halt(success, io) ==
    /\ successful_batches' = IF success THEN successful_batches + 1 ELSE successful_batches
    /\ failed_batches' = IF success THEN failed_batches ELSE failed_batches + 1
    /\ IF success /\ successful_batches' % CheckpointEvery = 0
       THEN /\ ckpt' = SaveProgress(ckpt, BatchNum(i, batch_size),
                                    successful_batches', failed_batches', io)
            /\ written' = io
       ELSE /\ ckpt' = ckpt
            /\ written' = written
    /\ result' = IF success THEN "success" ELSE "failed"
    /\ finished' = finished \cup {i \div batch_size}
    /\ pauses' = pauses + 1
    /\ i' = IF success THEN NextOffset(i, batch_size) ELSE Len(documents)
    /\ attempt' = 0
    /\ pc' = "loop"

\* a loop body that forgets to count a failed batch
BatchDone_nocount(success, io) ==
    /\ successful_batches' = IF success THEN successful_batches + 1 ELSE successful_batches
    /\ failed_batches' = failed_batches
    /\ IF success /\ successful_batches' % CheckpointEvery = 0
       THEN /\ ckpt' = SaveProgress(ckpt, BatchNum(i, batch_size),
                                    successful_batches', failed_batches', io)
            /\ written' = io
       ELSE /\ ckpt' = ckpt
            /\ written' = written
    /\ result' = IF success THEN "success" ELSE "failed"
    /\ finished' = finished \cup {i \div batch_size}
    /\ pauses' = pauses + 1
    /\ i' = NextOffset(i, batch_size)
    /\ attempt' = 0
    /\ pc' = "loop"

\* a loop body that goes over a failed batch again
BatchDone_redo(success, io) ==
    /\ successful_batches' = IF success THEN successful_batches + 1 ELSE successful_batches
    /\ failed_batches' = IF success THEN failed_batches ELSE failed_batches + 1
    /\ IF success /\ successful_batches' % CheckpointEvery = 0
       THEN /\ ckpt' = SaveProgress(ckpt, BatchNum(i, batch_size),
                                    successful_batches', failed_batches', io)
            /\ written' = io
       ELSE /\ ckpt' = ckpt
            /\ written' = written
    /\ result' = IF success THEN "success" ELSE "failed"
    /\ finished' = finished \cup {i \div batch_size}
    /\ pauses' = pauses + 1
    /\ i' = IF success THEN NextOffset(i, batch_size) ELSE i
    /\ attempt' = 0
    /\ pc' = "loop"

\* the rest of the loop body once _insert_batch_with_retry has returned (lines 162-171)
BatchDone(success, io) ==
    /\ successful_batches' = IF success THEN successful_batches + 1 ELSE successful_batches
    /\ failed_batches' = IF success THEN failed_batches ELSE failed_batches + 1
    /\ IF success /\ successful_batches' % CheckpointEvery = 0
       THEN /\ ckpt' = SaveProgress(ckpt, BatchNum(i, batch_size),
                                    successful_batches', failed_batches', io)
            /\ written' = io
       ELSE /\ ckpt' = ckpt
            /\ written' = written
    /\ result' = IF success THEN "success" ELSE "failed"
    /\ finished' = finished \cup {i \div batch_size}
    /\ pauses' = pauses + 1
    /\ i' = NextOffset(i, batch_size)
    /\ attempt' = 0
    /\ pc' = "loop"

\* if successful_batches % 10 == 0, once this batch is counted
Saves == (successful_batches + 1) % CheckpointEvery = 0

\* add_documents returns: lines 180-182, then 162-171
AddDocumentsOk(io) ==
    /\ UNCHANGED mapperVars
    /\ pc \in {"loop", "retry"}
    /\ ~Saves => io = "ok"                        \* a write can only fail where one happens
    /\ InRange(i, Len(documents))
    /\ MayAttempt(attempt, max_retries)
    /\ Call(TRUE)
    /\ waits' = IF pc = "loop" THEN <<>> ELSE waits
    /\ BatchDone(TRUE, io)
    /\ UNCHANGED <<env, embeddings, vector_store, csv_read, use_batch_insert,
                   successful_inserts, failed_inserts, documents, batch_size,
                   max_retries, resume, load, progress, resume_from, runs, failing>>

\* add_documents raises: lines 183-192, then 167-171 when no retry is left
AddDocumentsFail ==
    /\ UNCHANGED mapperVars
    /\ pc \in {"loop", "retry"}
    /\ InRange(i, Len(documents))
    /\ MayAttempt(attempt, max_retries)
    /\ pc = "loop" => failing < MaxFailingBatches
    /\ failing' = IF pc = "loop" THEN failing + 1 ELSE failing
    /\ Call(FALSE)
    /\ IF RetryFollows(attempt, max_retries)
       THEN /\ waits' = Append(IF pc = "loop" THEN <<>> ELSE waits, WaitTime(attempt))
            /\ attempt' = attempt + 1
            /\ pc' = "retry"
            /\ UNCHANGED <<i, successful_batches, failed_batches, ckpt, result,
                           pauses, written, finished>>
       ELSE /\ waits' = IF pc = "loop" THEN <<>> ELSE waits
            /\ BatchDone(FALSE, "ok")
    /\ UNCHANGED <<env, embeddings, vector_store, csv_read, use_batch_insert,
                   successful_inserts, failed_inserts, documents, batch_size,
                   max_retries, resume, load, progress, resume_from, runs>>

\* range(self.max_retries) is empty: line 193 returns False without a call
NoAttempt ==
    /\ UNCHANGED mapperVars
    /\ pc = "loop"
    /\ InRange(i, Len(documents))
    /\ ~MayAttempt(attempt, max_retries)
    /\ visited' = Append(visited, Handed(i))
    /\ outcomes' = <<>>
    /\ waits' = <<>>
    /\ BatchDone(FALSE, "ok")
    /\ UNCHANGED <<env, embeddings, vector_store, csv_read, use_batch_insert,
                   successful_inserts, failed_inserts, documents, batch_size,
                   max_retries, resume, load, progress, resume_from, runs, failing, stored>>

\* a loop over the documents that stops at the first failed insertion
InsertDone_stop(ok) ==
    /\ successful_inserts' = IF ok THEN successful_inserts + 1 ELSE successful_inserts
    /\ failed_inserts' = IF ok THEN failed_inserts ELSE failed_inserts + 1
    /\ i' = IF ok THEN i + 1 ELSE Len(documents)

\* lines 237 and 239-241: count the document and go on with the next one
InsertDone(ok) ==
    /\ successful_inserts' = IF ok THEN successful_inserts + 1 ELSE successful_inserts
    /\ failed_inserts' = IF ok THEN failed_inserts ELSE failed_inserts + 1
    /\ i' = i + 1

\* one iteration of insert_chunks_individual: add_documents([doc]) returns or raises
InsertOne(ok) ==
    /\ UNCHANGED mapperVars
    /\ pc = "each"
    /\ i < Len(documents)
    /\ ~ok => failing < MaxFailingBatches
    /\ failing' = IF ok THEN failing ELSE failing + 1
    /\ visited' = Append(visited, [num |-> i + 1, docs |-> <<documents[i + 1]>>])
    /\ stored' = [num |-> i + 1, docs |-> <<documents[i + 1]>>]
    /\ outcomes' = <<ok>>
    /\ InsertDone(ok)
    /\ UNCHANGED <<env, embeddings, vector_store, csv_read, use_batch_insert, documents,
                   batch_size, max_retries, pc, resume, load, progress, resume_from,
                   attempt, successful_batches, failed_batches, ckpt, waits, result,
                   pauses, written, finished, runs>>

\* the insertion loop is exhausted: lines 173 or 243, then 287-295
Complete(rmOk) ==
    /\ UNCHANGED mapperVars
    /\ \/ pc = "loop" /\ ~InRange(i, Len(documents))
       \/ pc = "each" /\ ~(i < Len(documents))
    /\ ckpt.kind = "none" => rmOk                 \* a remove can only fail where one happens
    /\ ckpt' = CleanUp(ckpt, rmOk)
    /\ written' = IF ckpt.kind = "none" THEN written
                  ELSE IF rmOk THEN "removed" ELSE "rmfail"
    /\ pc' = "done"
    /\ UNCHANGED <<env, embeddings, vector_store, csv_read, use_batch_insert,
                   successful_inserts, failed_inserts, documents, batch_size,
                   max_retries, resume, load, progress, resume_from, i, attempt,
                   successful_batches, failed_batches, visited, stored, outcomes, waits,
                   result, pauses, finished, runs, failing>>

\* the process is terminated in the middle of a run: what it held in memory
\* is gone, the progress file stays as it is
Crash ==
    /\ UNCHANGED mapperVars
    /\ pc \in {"loop", "retry", "each"}
    /\ pc' = "crashed"
    /\ i' = 0
    /\ attempt' = 0
    /\ successful_batches' = 0
    /\ failed_batches' = 0
    /\ successful_inserts' = 0
    /\ failed_inserts' = 0
    /\ visited' = <<>>
    /\ stored' = NoCall
    /\ outcomes' = <<>>
    /\ waits' = <<>>
    /\ result' = "none"
    /\ pauses' = 0
    /\ use_batch_insert' = TRUE
    /\ resume' = FALSE
    /\ load' = "notread"
    /\ progress' = LoadProgress(NoFile, TRUE)
    /\ resume_from' = 0
    /\ written' = "none"
    /\ UNCHANGED <<env, embeddings, vector_store, csv_read, documents, batch_size,
                   max_retries, ckpt, finished, runs, failing>>

\* the batch pipeline: every run is started with use_batch_insert = True
Next ==
    \/ \E connOk \in BOOLEAN : Setup(connOk)
    \/ \E res \in BOOLEAN, readOk \in BOOLEAN : ProcessCsvFile(TRUE, res, readOk)
    \/ \E io \in IOOutcomes : AddDocumentsOk(io)
    \/ AddDocumentsFail
    \/ NoAttempt
    \/ \E rmOk \in BOOLEAN : Complete(rmOk)
    \/ Crash

Spec == Init /\ [][Next]_vars

\* both insertion modes: each run is started in batch or in individual mode.
\* insert_chunks_individual consults neither batch_size nor max_retries, so
\* these runs are explored for batch size 1 and a retry limit of 0 or 1.
InitModes == Init /\ batch_size = 1 /\ max_retries <= 1

NextModes ==
    \/ \E connOk \in BOOLEAN : Setup(connOk)
    \/ \E batch \in BOOLEAN, res \in BOOLEAN, readOk \in BOOLEAN :
          ProcessCsvFile(batch, res, readOk)
    \/ \E io \in IOOutcomes : AddDocumentsOk(io)
    \/ AddDocumentsFail
    \/ NoAttempt
    \/ \E ok \in BOOLEAN : InsertOne(ok)
    \/ \E rmOk \in BOOLEAN : Complete(rmOk)
    \/ Crash

SpecModes == InitModes /\ [][NextModes]_vars

\* an uninterrupted pipeline: no run is terminated from outside, and a run
\* that can take a step takes one (the interpreter keeps executing the loops)
RunStep ==
    \/ \E io \in IOOutcomes : AddDocumentsOk(io)
    \/ AddDocumentsFail
    \/ NoAttempt
    \/ \E rmOk \in BOOLEAN : Complete(rmOk)

FairNext ==
    \/ \E connOk \in BOOLEAN : Setup(connOk)
    \/ \E res \in BOOLEAN, readOk \in BOOLEAN : ProcessCsvFile(TRUE, res, readOk)
    \/ \E io \in IOOutcomes : AddDocumentsOk(io)
    \/ AddDocumentsFail
    \/ NoAttempt
    \/ \E rmOk \in BOOLEAN : Complete(rmOk)

FairSpec == Init /\ [][FairNext]_vars /\ WF_vars(RunStep)

\* the row mapper on its own: one call of create_document_from_row (line 268)
\* on a row of the CSV file, the pipeline not yet started
MapRow ==
    /\ document = <<>>
    /\ document' = <<CreateDocumentFromRow(row)>>
    /\ UNCHANGED <<env, embeddings, vector_store, csv_read, use_batch_insert,
                   successful_inserts, failed_inserts, documents, batch_size,
                   max_retries, pc, resume, load, progress, resume_from, i, attempt,
                   successful_batches, failed_batches, ckpt, visited, stored, outcomes,
                   waits, result, pauses, written, finished, runs, failing, row>>

InitMapper ==
    /\ PipelineInit
    /\ env = [POSTGRES_URL |-> "set", GOOGLE_API_KEY |-> "set"]
    /\ documents = <<>>
    /\ batch_size = 1
    /\ max_retries = 1
    /\ row \in Rows
    /\ document = <<>>

NextMapper == MapRow

SpecMapper == InitMapper /\ [][NextMapper]_vars

TypeOK ==
    /\ pc \in {"start", "aborted", "idle", "loop", "retry", "each", "done", "crashed"}
    /\ successful_batches \in Nat
    /\ failed_batches \in Nat
    /\ attempt \in Nat
    /\ ckpt.kind \in {"none", "ok", "corrupt"}

\* ------------------------------------------------- vocabulary of the claims

\* ceil(n / b), computed without the program's formula
CeilDiv(n, b) == CHOOSE q \in 0..n : q * b >= n /\ (q = 0 \/ (q - 1) * b < n)

\* the documents a batch with 0-indexed index j must hold
Slice(j) ==
    LET lo == j * batch_size
        hi == Min((j + 1) * batch_size, Len(documents))
    IN  [x \in 1..(hi - lo) |-> documents[lo + x]]

RECURSIVE Concat(_)
Concat(batches) ==
    IF batches = <<>> THEN <<>>
    ELSE Head(batches).docs \o Concat(Tail(batches))

\* inside a batch-mode run, or at its end
InRun == use_batch_insert /\ pc \in {"loop", "retry", "done"}

\* the batches the run has to attempt when it starts at batch index k
Remaining(k) ==
    LET t == CeilDiv(Len(documents), batch_size) IN IF k >= t THEN 0 ELSE t - k

\* a step in which _insert_batch_with_retry returned and the loop body finished
BatchFinishes == pauses' = pauses + 1

\* a step in which add_documents was called
CallStep ==
    \/ Len(visited') = Len(visited) + 1 /\ Len(outcomes') = 1
    \/ visited' = visited /\ Len(outcomes') = Len(outcomes) + 1

\* ----------------------------------------------------------------- claims

\* C1: a fresh run (resume_from = 0) over N documents with batch size B hands
\* exactly ceil(N/B) batches to the store; batch j is the contiguous slice
\* documents[j*B .. min((j+1)*B, N)-1], every batch but possibly the last has
\* size B, and the batches concatenated in order are the document list.
C1_Partition ==
    (InRun /\ resume_from = 0) =>
        /\ \A j \in 1..Len(visited) :
              /\ visited[j].docs = Slice(j - 1)
              /\ j < Len(visited) => Len(visited[j].docs) = batch_size
              /\ Len(visited[j].docs) \in 1..batch_size
        /\ pc = "done" =>
              /\ Len(visited) = CeilDiv(Len(documents), batch_size)
              /\ Concat(visited) = documents

C1_Witness ==
    /\ pc = "done" /\ resume_from = 0
    /\ Len(documents) = 5 /\ batch_size = 2
    /\ Len(visited) = 3 /\ Len(visited[3].docs) = 1

\* C2: a run that resumes from a loaded checkpoint with current_batch = k
\* attempts exactly the batches with 0-indexed index >= k, in increasing order,
\* never calls the store for a batch with index < k, and attempts nothing when
\* k is at least the number of batches.
C2_ResumeSkips ==
    (InRun /\ resume) =>
        LET k == progress.current_batch IN
        /\ \A j \in 1..Len(visited) :
              /\ visited[j].num - 1 = k + j - 1
              /\ visited[j].docs = Slice(k + j - 1)
        /\ stored # NoCall => stored.num - 1 >= k /\ stored.docs = Slice(stored.num - 1)
        /\ pc = "done" => Len(visited) = Remaining(k)

C2_Witness ==
    /\ pc = "done" /\ resume /\ load = "parsed"
    /\ progress.current_batch = 10 /\ batch_size = 1 /\ Len(documents) = 13
    /\ Len(visited) = 3 /\ visited[1].num = 11 /\ visited[3].num = 13

\* C3: a batch whose every insertion attempt failed is recorded as failed
\* (failed_batches + 1, successful_batches unchanged), the run goes on with the
\* loop, and a run that completes has attempted every batch from its start
\* index on, whatever failed.
C3_FailureNonFatal ==
    [][ /\ (BatchFinishes /\ result' = "failed") =>
              /\ failed_batches' = failed_batches + 1
              /\ successful_batches' = successful_batches
              /\ pc' = "loop"
              /\ i' = i + batch_size
        /\ (pc' = "done" /\ use_batch_insert') =>
              /\ Len(visited') = Remaining(resume_from')
              /\ \A j \in 1..Len(visited') : visited'[j].num = resume_from' + j
      ]_vars

C3_Witness ==
    /\ pc = "done" /\ max_retries = 3 /\ failed_batches = 1 /\ successful_batches = 2
    /\ Len(visited) = 3 /\ result = "success"

\* C4 as stated: after process_csv_file has returned, no progress file remains.
C4_Original == pc = "done" => ckpt.kind = "none"

\* C4 (amended): after process_csv_file has returned, no progress file
\* remains unless removing it failed; a run that found no file to remove
\* leaves none behind either.
C4_NoCheckpointAfterRun ==
    pc = "done" => (ckpt.kind = "none" \/ written = "rmfail")

C4_Witness ==
    /\ pc = "done" /\ written = "removed" /\ ckpt.kind = "none"
    /\ successful_batches >= CheckpointEvery /\ failed_batches >= 1

\* C5: for each batch add_documents is called at most max_retries times, no
\* call follows a successful one, and the batch is counted as successful
\* exactly when one of its calls succeeded.
C5_RetryBound ==
    [][ /\ use_batch_insert' => Len(outcomes') <= max_retries'
        /\ \A c \in 1..(Len(outcomes') - 1) : outcomes'[c] = FALSE
        /\ BatchFinishes =>
              /\ (successful_batches' = successful_batches + 1)
                    <=> (\E c \in 1..Len(outcomes') : outcomes'[c])
              /\ (failed_batches' = failed_batches + 1)
                    <=> (\A c \in 1..Len(outcomes') : ~outcomes'[c])
              /\ successful_batches' + failed_batches'
                    = successful_batches + failed_batches + 1
      ]_vars

C5_Witness ==
    /\ pc = "loop" /\ max_retries = 3 /\ outcomes = <<FALSE, FALSE, FALSE>>
    /\ result = "failed" /\ failed_batches = 1 /\ successful_batches = 1

\* C6: the failed attempt number a (0-indexed) of a batch is followed by a
\* wait of 2^a * 2 exactly when a retry follows; there is no wait after a
\* success or after the final failed attempt, so a batch that failed all of
\* its max_retries >= 1 attempts waited max_retries - 1 times.
C6_Backoff ==
    /\ \A a \in 1..Len(waits) : waits[a] = 2 * (2 ^ (a - 1))
    /\ attempt > 0 => Len(waits) = Len(outcomes) /\ Len(waits) = attempt
    /\ (use_batch_insert /\ attempt = 0 /\ outcomes # <<>>) => Len(waits) = Len(outcomes) - 1
    /\ outcomes = <<>> => waits = <<>>
    /\ (attempt = 0 /\ result = "failed" /\ outcomes # <<>>) =>
          Len(waits) = max_retries - 1

C6_Witness ==
    /\ max_retries = 3 /\ outcomes = <<FALSE, FALSE, TRUE>>
    /\ waits = <<2, 4>> /\ result = "success" /\ pc = "loop"

\* C7 as stated: a progress file that is present holds cumulative counts, a
\* positive multiple of 10 successful batches and
\* successful_batches + failed_batches = current_batch, in fresh and resumed
\* runs alike.
C7_Original ==
    ckpt.kind = "ok" =>
        /\ ckpt.successful_batches % CheckpointEvery = 0
        /\ ckpt.successful_batches > 0
        /\ ckpt.successful_batches + ckpt.failed_batches = ckpt.current_batch

\* C8: a progress file that is present reflects a batch boundary: every batch
\* with 0-indexed index below its current_batch has finished in this run or an
\* earlier one, and the file only changes in a step that finishes a batch or
\* ends the run, never between two attempts on a batch.
C8_BatchBoundary ==
    [][ /\ ckpt'.kind = "ok" => \A j \in 0..(ckpt'.current_batch - 1) : j \in finished'
        /\ ckpt' # ckpt =>
              /\ pc' \in {"loop", "done"}
              /\ attempt' = 0
              /\ (pc' = "loop" => BatchFinishes /\ result' = "success")
      ]_vars

C8_Witness ==
    /\ ckpt.kind = "ok" /\ ckpt.current_batch = 20 /\ written = "ok"
    /\ runs = 2 /\ resume /\ progress.current_batch = 10 /\ pc = "loop"

\* C9: batches are visited in strictly increasing index order, each once, and
\* every add_documents call is on the batch visited last, so all attempts on a
\* batch precede the first attempt on the next one.
C9_InOrder ==
    [][ /\ \A j \in 1..(Len(visited') - 1) : visited'[j + 1].num = visited'[j].num + 1
        /\ CallStep =>
              /\ stored' = visited'[Len(visited')]
              /\ (stored # NoCall /\ visited' = visited) => stored'.num = stored.num
              /\ (stored # NoCall /\ visited' # visited) => stored'.num = stored.num + 1
      ]_vars

C9_Witness ==
    /\ pc = "retry" /\ Len(visited) = 3 /\ stored.num = 3
    /\ outcomes = <<FALSE>> /\ failed_batches = 0 /\ successful_batches = 2

\* C10: a run that asks to resume and finds no progress file, or one it cannot
\* read or parse, is not aborted and behaves as a fresh run: it starts at
\* batch 0 and attempts every batch.
C10_ResumeFallback ==
    (InRun /\ resume /\ load \in {"missing", "unreadable"}) =>
        /\ resume_from = 0
        /\ \A j \in 1..Len(visited) : visited[j].num = j /\ visited[j].docs = Slice(j - 1)
        /\ pc = "done" => Len(visited) = CeilDiv(Len(documents), batch_size)

C10_Witness ==
    /\ pc = "done" /\ resume /\ load = "unreadable" /\ runs = 2
    /\ Len(visited) = 12 /\ batch_size = 1

\* C11: with an empty document list the batch pipeline processes zero batches:
\* no batch is handed over, the store is never called, there is no backoff and
\* no inter-batch wait, no checkpoint is written, and the run completes with
\* successful_batches = failed_batches = 0.
C11_EmptyRun ==
    (InRun /\ Len(documents) = 0) =>
        /\ pc \in {"loop", "done"}
        /\ visited = <<>>
        /\ stored = NoCall
        /\ outcomes = <<>>
        /\ waits = <<>>
        /\ pauses = 0
        /\ written = "none"
        /\ ckpt = NoFile
        /\ successful_batches = 0
        /\ failed_batches = 0

C11_Witness ==
    /\ pc = "done" /\ use_batch_insert /\ runs = 1
    /\ Len(documents) = 0 /\ batch_size = 2 /\ max_retries = 3

\* C12: in individual mode document j is the j-th submission, handed over
\* alone, once and in input order, with a single add_documents call; a failed
\* insertion is counted in failed_inserts, the loop goes on with the next
\* document, and at the end successful_inserts + failed_inserts is the number
\* of documents.
C12_Individual ==
    [][ (~use_batch_insert' /\ pc' \in {"each", "done"}) =>
          /\ Len(visited') = i'
          /\ \A j \in 1..Len(visited') :
                visited'[j] = [num |-> j, docs |-> <<documents'[j]>>]
          /\ Len(outcomes') <= 1
          /\ waits' = <<>>
          /\ successful_inserts' + failed_inserts' = i'
          /\ Len(visited') = Len(visited) + 1 =>
                /\ pc' = "each"
                /\ outcomes'[1] =>
                      /\ successful_inserts' = successful_inserts + 1
                      /\ failed_inserts' = failed_inserts
                /\ ~outcomes'[1] =>
                      /\ failed_inserts' = failed_inserts + 1
                      /\ successful_inserts' = successful_inserts
          /\ pc' = "done" => successful_inserts' + failed_inserts' = Len(documents')
      ]_vars

C12_Witness ==
    /\ pc = "done" /\ ~use_batch_insert /\ Len(documents) = 5
    /\ failed_inserts = 1 /\ successful_inserts = 4
    /\ outcomes = <<TRUE>> /\ visited[5].docs = <<5>>

\* what C13 promises for a field: the row's value, or the default when the
\* column is absent or the cell is empty
Expected(cell, default) == IF cell.state = "value" THEN cell.val ELSE default

\* C13 as stated: the row is mapped to exactly one document whose metadata
\* holds the row's values, with 0 for a missing hadith_number or
\* chapter_number, "Unknown" for a missing source and the empty string for a
\* missing chapter, chain_index or text, missing meaning column absent or
\* value empty/NaN.
C13_Original ==
    document # <<>> =>
        /\ Len(document) = 1
        /\ document[1].metadata.source = Cell("value", Expected(row.source, "Unknown"))
        /\ document[1].metadata.hadith_number = Cell("value", Expected(row.hadith_no, 0))
        /\ document[1].metadata.chapter_number = Cell("value", Expected(row.chapter_no, 0))
        /\ document[1].metadata.chapter = Cell("value", Expected(row.chapter, ""))
        /\ document[1].metadata.chain_index = Cell("value", Expected(row.chain_indx, ""))
        /\ document[1].page_content
              = <<Expected(row.text_ar, ""), Expected(row.text_en, "")>>

\* C14: when POSTGRES_URL or GOOGLE_API_KEY is missing, setup aborts before
\* any work starts: no embedding client and no vector store is constructed,
\* no input file is read, the store is never called and the progress file is
\* neither read, written nor deleted.
C14_SetupAborts ==
    (~Truthy(env.POSTGRES_URL) \/ ~Truthy(env.GOOGLE_API_KEY)) =>
        /\ pc \in {"start", "aborted"}
        /\ ~embeddings
        /\ ~vector_store
        /\ ~csv_read
        /\ runs = 0
        /\ visited = <<>>
        /\ stored = NoCall
        /\ load = "notread"
        /\ written = "none"
        /\ ckpt = NoFile

C14_Witness ==
    /\ pc = "aborted" /\ env.POSTGRES_URL = Unset /\ env.GOOGLE_API_KEY = "set"
    /\ ~embeddings /\ ~csv_read

\* C15: at every point of a batch run successful_batches + failed_batches is
\* the number of batches whose processing has finished in this run (the
\* batches handed over, less the one still being retried); at completion the
\* sum is the number of batches from the resume offset on, never negative.
C15_CountsSum ==
    InRun =>
        /\ successful_batches + failed_batches
              = (IF pc = "retry" THEN Len(visited) - 1 ELSE Len(visited))
        /\ successful_batches + failed_batches = pauses
        /\ pc = "done" =>
              /\ successful_batches + failed_batches = Remaining(resume_from)
              /\ successful_batches + failed_batches >= 0

C15_Witness ==
    /\ pc = "done" /\ use_batch_insert /\ resume_from = 10
    /\ batch_size = 1 /\ Len(documents) = 13
    /\ successful_batches = 2 /\ failed_batches = 1

\* C16 as stated: a batch recorded as failed has been submitted to the store
\* at least once, whatever the retry limit.
C16_Original == result = "failed" => Len(outcomes) >= 1

\* C17 as stated: a run in individual mode neither reads nor changes the
\* progress file, so a file that existed before the run is still there,
\* unchanged, after it.
C17_Original ==
    [][ /\ ~use_batch_insert' => load' = "notread"
        /\ (~use_batch_insert /\ ~use_batch_insert') => ckpt' = ckpt
      ]_vars

\* a step in which _save_progress was called and failed
SaveFails ==
    /\ BatchFinishes
    /\ result' = "success"
    /\ successful_batches' % CheckpointEvery = 0
    /\ written' \in {"openfail", "dumpfail"}

\* C18 as stated: a failed write of the progress file leaves the run going
\* with its counters, and a later resume sees the checkpoint persisted before.
C18_Original ==
    [][ SaveFails =>
          /\ pc' = "loop"
          /\ i' = i + batch_size
          /\ successful_batches' = successful_batches + 1
          /\ failed_batches' = failed_batches
          /\ LoadProgress(ckpt', TRUE) = LoadProgress(ckpt, TRUE)
      ]_vars

\* C18 (amended): a failed write of the progress file does not abort the run
\* and does not change its counters, and the run goes on with the next batch;
\* a later resume sees the checkpoint persisted before only when the file
\* could not be opened: a write that fails after the file was opened leaves
\* it unreadable, and a later resume starts from batch 0.
C18_SaveFailure ==
    [][ SaveFails =>
          /\ pc' = "loop"
          /\ i' = i + batch_size
          /\ successful_batches' = successful_batches + 1
          /\ failed_batches' = failed_batches
          /\ written' = "openfail" => ckpt' = ckpt
          /\ written' = "dumpfail" =>
                /\ LoadKind(ckpt', TRUE) = "unreadable"
                /\ ResumeFrom(TRUE, LoadProgress(ckpt', TRUE)) = 0
      ]_vars

C18_Witness ==
    /\ written = "dumpfail" /\ ckpt = Truncated /\ runs = 1
    /\ successful_batches = 20 /\ failed_batches = 0 /\ pc = "loop" /\ i = 20

\* C19: when a run completes, whatever runs were terminated before it, every
\* batch index in 0..ceil(N/B)-1 has been taken through the loop body in some
\* run; and the first batch a resumed run hands over is the one after the
\* last batch the loaded checkpoint covers (saved 1-indexed number = 0-indexed
\* index resumed from).
C19_Coverage ==
    /\ (pc = "done" /\ use_batch_insert) =>
          \A j \in 0..(CeilDiv(Len(documents), batch_size) - 1) : j \in finished
    /\ (InRun /\ resume /\ load = "parsed") =>
          /\ resume_from = progress.current_batch
          /\ \A j \in 0..(resume_from - 1) : j \in finished
          /\ visited # <<>> => visited[1].num = progress.current_batch + 1

C19_Witness ==
    /\ pc = "done" /\ runs = 2 /\ resume /\ load = "parsed"
    /\ progress.current_batch = 10 /\ Len(documents) = 12 /\ batch_size = 1
    /\ finished = 0..11 /\ visited[1].num = 11

\* C20: an uninterrupted batch run terminates in the clean-up step
\* (pc = "done" is set by it).  Along the way at most Remaining(resume_from)
\* batches are handed over and each receives at most max_retries
\* add_documents calls, so the run makes at most
\* (batches attempted) * max_retries calls.
C20_Terminates ==
    /\ [](InRun => /\ Len(visited) <= Remaining(resume_from)
                   /\ Len(outcomes) <= max_retries)
    /\ (pc \in {"loop", "retry"}) ~> (pc = "done")

C20_Witness ==
    /\ pc = "done" /\ use_batch_insert /\ max_retries = 2
    /\ Len(documents) = 3 /\ batch_size = 1
    /\ failed_batches = 1 /\ outcomes = <<FALSE, FALSE>> /\ Len(visited) = 3

====
